---------------------------- MODULE Spec2Model ----------------------------
(***************************************************************************)
(* Candidate splitting of CRPropa3: the two near-duplicate modules         *)
(* CandidateSplitting and ParticleSplittingModule, their bin-table         *)
(* construction, and process() with the shared serial-number counter.     *)
(*                                                                         *)
(* Doubles are modelled as exact non-negative reals of the form            *)
(* (n/d)^(1/q), which is closed under everything the code computes on the  *)
(* inputs drawn here, plus NaN (d = 0).  Rounding is not modelled.         *)
(***************************************************************************)
EXTENDS Integers, Sequences, FiniteSets, TLC

(***************************************************************************)
(* Bounds of the model.                                                    *)
(***************************************************************************)
MaxE == 2          \* energies and Emin/Emax are drawn from 0..MaxE
MaxBins == 2       \* n_bins is drawn from 0..MaxBins
MaxSplit == 2      \* n_split is drawn from 0..MaxSplit
MaxIndex == 2      \* SpectralIndex is drawn from -1..MaxIndex
MaxFactor == 1     \* factor is drawn from 0..MaxFactor
MaxCand == 3       \* candidates the run may hold for each primary
MaxSteps == 1      \* engine steps per run for each primary

Energies == 0 .. MaxE
Variants == {"Candidate", "Particle"}
Workers == {1, 2}

\* what a read of Ebins[i] can do: yield the edge when i is inside the vector;
\* outside it the behaviour is undefined, and the read crashes or yields
\* whatever lies there
ReadOutcomes(inside) == IF inside THEN {"value"} ELSE {"segv", "garbage"}

VARIABLES
  variant,           \* which of the two classes the module object is
  built,             \* "none" before a constructor returned, then "ok"
  n_split,           \* the module's n_split
  Ebins,             \* the module's Ebins: a sequence of doubles
  running,           \* the engine has started to move and process candidates
  nsteps,            \* engine steps made so far
  cands,             \* the candidates, by identity (index)
  nextSerialNumber,  \* Candidate's static serial counter
  frames,            \* per worker: the position inside process()
  processed,         \* candidates processed since the engine last moved them
  fault,             \* "none", or "segv" once an out-of-bounds read crashed
  last               \* the last completed call, its arguments and the state before

vars == <<variant, built, n_split, Ebins, running, nsteps, cands,
          nextSerialNumber, frames, processed, fault, last>>

(***************************************************************************)
(* Doubles.                                                                *)
(***************************************************************************)
RECURSIVE Pow(_, _)
Pow(b, e) == IF e = 0 THEN 1 ELSE b * Pow(b, e - 1)

RECURSIVE GCD(_, _)
GCD(a, b) == IF b = 0 THEN a ELSE GCD(b, a % b)

NaN == [n |-> 0, d |-> 0, q |-> 1]
Num(x) == [n |-> x, d |-> 1, q |-> 1]
IsNaN(a) == a.d = 0

\* a < b on doubles: false when either is NaN
Less(a, b) ==
  /\ ~IsNaN(a)
  /\ ~IsNaN(b)
  /\ IF a.q = b.q
       THEN a.n * b.d < b.n * a.d
       ELSE Pow(a.n, b.q) * Pow(b.d, a.q) < Pow(b.n, a.q) * Pow(a.d, b.q)

\* a == b on doubles: false when either is NaN
Same(a, b) == ~IsNaN(a) /\ ~IsNaN(b) /\ ~Less(a, b) /\ ~Less(b, a)

(***************************************************************************)
(* setEnergyBins: the edges.                                               *)
(***************************************************************************)
\* a bug LinEdge could have: dE computed in integers, (Emax - Emin) / n_bins
\* truncated
LinEdgeTruncated(Emin, Emax, nb, i) ==
  [n |-> Emin + i * ((Emax - Emin) \div nb), d |-> 1, q |-> 1]

\* Emin + i * dE with dE = (Emax - Emin) / n_bins
LinEdge(Emin, Emax, nb, i) ==
  [n |-> Emin * nb + i * (Emax - Emin), d |-> nb, q |-> 1]

\* Emin * pow(Emax / Emin, i / (n_bins - 1.0)), for 0 <= Emin <= Emax.
\* n_bins = 1 makes the exponent 0/0 = NaN, and pow(x, NaN) is 1 only for
\* x = 1; pow(x, 0) is 1 for every x; Emin = 0 makes the base inf or NaN and
\* 0 * pow(base, positive) NaN; otherwise the value is the q-th root of
\* Emin^(q-p) * Emax^p with p/q the exponent in lowest terms.
LogEdge(Emin, Emax, nb, i) ==
  IF nb = 1
    THEN IF Emin = Emax /\ Emin # 0 THEN Num(Emin) ELSE NaN
    ELSE IF i = 0
      THEN Num(Emin)
      ELSE IF Emin = 0
        THEN NaN
        ELSE LET g == GCD(i, nb - 1)
                 p == i \div g
                 q == (nb - 1) \div g
             IN  [n |-> Pow(Emin, q - p) * Pow(Emax, p), d |-> 1, q |-> q]

Edge(Emin, Emax, nb, log, i) ==
  IF log THEN LogEdge(Emin, Emax, nb, i) ELSE LinEdge(Emin, Emax, nb, i)

\* the loop of setEnergyBins: one push_back per i = 0 .. n_bins - 1
BuildEdges(Emin, Emax, nb, log) ==
  [k \in 1 .. nb |-> Edge(Emin, Emax, nb, log, k - 1)]

\* the check that makes setEnergyBins throw
BadRange(Emin, Emax) == Emin > Emax

\* ParticleSplittingModule::setEnergyBins ends by printing Ebins[0] and
\* Ebins[n_bins-1]; CandidateSplitting::setEnergyBins reads no edge.
ReadsEdgesAfterBuild(v) == v = "Particle"

\* whether those reads stay inside the vector: they are reached when nothing
\* was thrown, and Ebins[0], Ebins[n_bins-1] exist from n_bins = 1 on
InsideAfterBuild(v, Emin, Emax, nb) ==
  ~ReadsEdgesAfterBuild(v) \/ BadRange(Emin, Emax) \/ nb >= 1

\* setEnergyBins as a whole: the table it leaves and how it ends.  ub is the
\* outcome of the read of Ebins[0].
SetEnergyBinsResult(v, Emin, Emax, nb, log, ub) ==
  IF BadRange(Emin, Emax)
    THEN [bins |-> << >>, outcome |-> "throw"]
    ELSE LET bins == BuildEdges(Emin, Emax, nb, log)
         IN  IF ReadsEdgesAfterBuild(v) /\ Len(bins) = 0 /\ ub = "segv"
               THEN [bins |-> bins, outcome |-> "segv"]
               ELSE [bins |-> bins, outcome |-> "ok"]

(***************************************************************************)
(* The spectral-index constructors.                                        *)
(***************************************************************************)
\* CandidateSplitting throws for SpectralIndex <= 0
RejectsIndexCandidate(idx) == idx <= 0

\* ParticleSplittingModule throws for SpectralIndex < 0
RejectsIndexParticle(idx) == idx < 0

RejectsIndex(v, idx) ==
  IF v = "Candidate" THEN RejectsIndexCandidate(idx) ELSE RejectsIndexParticle(idx)

\* double Emax = Emin * pow(10, factor)
SpectralEmax(Emin, factor) == Emin * Pow(10, factor)

\* int n_bins = factor + 1
SpectralBins(factor) == factor + 1

\* a bug SpectralNsplit could have: the exponent without its - 1
SpectralNsplitOffByOne(idx) == IF idx < 0 THEN 0 ELSE Pow(10, idx)

\* (int) pow(10, SpectralIndex - 1): 0.1 truncates to 0
SpectralNsplit(idx) == IF idx - 1 < 0 THEN 0 ELSE Pow(10, idx - 1)

(***************************************************************************)
(* Candidates.  A candidate is known by its index in cands; parent = 0 is  *)
(* no parent; the weight is the exact fraction n/d.                        *)
(***************************************************************************)
NewCandidate(E, snr) ==
  [current |-> E, previous |-> E, weight |-> [n |-> 1, d |-> 1],
   serial |-> snr, parent |-> 0, secondaries |-> << >>]

\* Candidate::updateWeight(1. / n_split): weight *= 1 / n_split
UpdateWeight(w, ns) == [n |-> w.n, d |-> w.d * ns]

\* Candidate::clone(false): a new candidate with the originator's states and
\* weight and none of its secondaries
Clone(c) ==
  [current |-> c.current, previous |-> c.previous, weight |-> c.weight,
   serial |-> c.serial, parent |-> 0, secondaries |-> << >>]

\* CandidateSplitting sets the clone's previous energy to currE;
\* ParticleSplittingModule leaves the cloned one
ClonePrevious(v, clone, currE) ==
  IF v = "Candidate" THEN currE ELSE clone.previous

(***************************************************************************)
(* process().  m is the module object (class v, n_split ns, Ebins bins), a *)
(* frame one call's position and locals, a world the candidates, the       *)
(* serial counter and the fault flag.                                      *)
(***************************************************************************)
Module == [v |-> variant, ns |-> n_split, bins |-> Ebins]

World == [cands |-> cands, next |-> nextSerialNumber, fault |-> fault]

IdleFrame == [pc |-> "idle", c |-> 0, j |-> 0, s |-> 0, snr |-> 0]

StartFrame(c) == [IdleFrame EXCEPT !.pc = "start", !.c = c]

\* the scan "for i: if (prevE < Ebins[i])": the first such index, 0 if none
FirstAbove(bins, prevE) ==
  LET S == {i \in 1 .. Len(bins) : Less(prevE, bins[i])}
  IN  IF S = {} THEN 0 ELSE CHOOSE i \in S : \A k \in S : i <= k

\* a bug SkipsAll could have: one of the two classes testing <= Ebins[0]
SkipsAllInclusiveInOne(m, currE) ==
  \/ IF m.v = "Particle"
       THEN ~Less(m.bins[1], currE)
       ELSE Less(currE, m.bins[1])
  \/ m.ns = 0

\* "if (currE < Ebins[0] || n_split == 0) return;"
SkipsAll(m, currE) == Less(currE, m.bins[1]) \/ m.ns = 0

\* a bug SameBin could have: the first edge instead of edge i
SameBinFirstEdge(bins, currE, i) == Less(currE, bins[1])

\* "if (currE < Ebins[i]) return;"
SameBin(bins, currE, i) == Less(currE, bins[i])

\* a bug StopsAfter could have: <= instead of <
StopsAfterInclusive(bins, currE, j) ==
  j < Len(bins) /\ ~Less(bins[j + 1], currE)

\* "if (j < Ebins.size()-1 && currE < Ebins[j+1]) return;"
StopsAfter(bins, currE, j) == j < Len(bins) /\ Less(currE, bins[j + 1])

\* a bug SpawnsAgain could have: <= instead of <
SpawnsAgainInclusive(m, s) == s <= m.ns

\* "for (int i = 1; i < n_split; i++)": whether iteration s runs
SpawnsAgain(m, s) == s < m.ns

\* the counter value setNextSerialNumber stores after a clone got snr
NextAfter(snr) == snr + 1

Done(st, f) == [st |-> st, f |-> [f EXCEPT !.pc = "done"]]

\* lines 40-57: the guards and the scan for the bin of prevE.  With no edge
\* stored, Ebins[0] reads outside the vector: the read crashes, or yields
\* some value, after which nothing is left to do.
StepStart(m, ub, st, f) ==
  LET c == st.cands[f.c]
      currE == Num(c.current)
      prevE == Num(c.previous)
      i == FirstAbove(m.bins, prevE)
  IN  IF Len(m.bins) = 0
        THEN IF ub = "segv"
               THEN Done([st EXCEPT !.fault = "segv"], f)
               ELSE Done(st, f)
        ELSE IF SkipsAll(m, currE) \/ i = 0 \/ SameBin(m.bins, currE, i)
          THEN Done(st, f)
          ELSE [st |-> st, f |-> [f EXCEPT !.pc = "weight", !.j = i]]

\* a bug StepWeight could have: the spawning loop counting the secondaries
\* the candidate already has
StepWeightCountsSecondaries(m, st, f) ==
  LET w == UpdateWeight(st.cands[f.c].weight, m.ns)
      s == 1 + Len(st.cands[f.c].secondaries)
  IN  [st |-> [st EXCEPT !.cands[f.c].weight = w],
       f |-> [f EXCEPT !.pc = IF SpawnsAgain(m, s) THEN "clone" ELSE "check",
                       !.s = s]]

\* line 63, then the head of the spawning loop
StepWeight(m, st, f) ==
  LET w == UpdateWeight(st.cands[f.c].weight, m.ns)
  IN  [st |-> [st EXCEPT !.cands[f.c].weight = w],
       f |-> [f EXCEPT !.pc = IF SpawnsAgain(m, 1) THEN "clone" ELSE "check",
                       !.s = 1]]

\* a bug StepClone could have: the new candidate registered as a secondary
\* of itself and the originator made its child
StepCloneReversed(m, st, f) ==
  LET c == st.cands[f.c]
      snr == st.next
      cl == Clone(c)
      id == Len(st.cands) + 1
      nc == [cl EXCEPT !.serial = snr, !.secondaries = <<f.c>>,
                       !.previous = ClonePrevious(m.v, cl, c.current)]
  IN  [st |-> [st EXCEPT !.cands =
                 Append([st.cands EXCEPT ![f.c].parent = id], nc)],
       f |-> [f EXCEPT !.pc = "setnext", !.snr = snr]]

\* a bug StepClone could have: the clone taken before line 63 divided the
\* weight, so that it carries the undivided weight
StepCloneBeforeWeight(m, st, f) ==
  LET c == st.cands[f.c]
      snr == st.next
      cl == Clone(c)
      nc == [cl EXCEPT !.parent = f.c, !.serial = snr,
                       !.weight = [n |-> c.weight.n, d |-> c.weight.d \div m.ns],
                       !.previous = ClonePrevious(m.v, cl, c.current)]
      id == Len(st.cands) + 1
  IN  [st |-> [st EXCEPT !.cands =
                 Append([st.cands EXCEPT ![f.c].secondaries = Append(@, id)], nc)],
       f |-> [f EXCEPT !.pc = "setnext", !.snr = snr]]

\* lines 68-74: clone, parent, getNextSerialNumber, setSerialNumber,
\* previous.setEnergy (CandidateSplitting only), addSecondary
StepClone(m, st, f) ==
  LET c == st.cands[f.c]
      snr == st.next
      cl == Clone(c)
      nc == [cl EXCEPT !.parent = f.c, !.serial = snr,
                       !.previous = ClonePrevious(m.v, cl, c.current)]
      id == Len(st.cands) + 1
  IN  [st |-> [st EXCEPT !.cands =
                 Append([st.cands EXCEPT ![f.c].secondaries = Append(@, id)], nc)],
       f |-> [f EXCEPT !.pc = "setnext", !.snr = snr]]

\* line 75: setNextSerialNumber(snr + 1), then the loop's i++ and test
StepSetNext(m, st, f) ==
  [st |-> [st EXCEPT !.next = NextAfter(f.snr)],
   f |-> [f EXCEPT !.pc = IF SpawnsAgain(m, f.s + 1) THEN "clone" ELSE "check",
                   !.s = f.s + 1]]

\* lines 80-85: stop in the bin of currE, or go on to the next edge
StepCheck(m, st, f) ==
  LET currE == Num(st.cands[f.c].current)
  IN  IF StopsAfter(m.bins, currE, f.j) \/ f.j + 1 > Len(m.bins)
        THEN Done(st, f)
        ELSE [st |-> st, f |-> [f EXCEPT !.pc = "weight", !.j = f.j + 1]]

ProcStep(m, ub, st, f) ==
  CASE f.pc = "start" -> StepStart(m, ub, st, f)
    [] f.pc = "weight" -> StepWeight(m, st, f)
    [] f.pc = "clone" -> StepClone(m, st, f)
    [] f.pc = "setnext" -> StepSetNext(m, st, f)
    [] f.pc = "check" -> StepCheck(m, st, f)

\* one whole call of process(), run to its return
RECURSIVE RunProcess(_, _, _, _)
RunProcess(m, ub, st, f) ==
  IF f.pc = "done"
    THEN st
    ELSE LET r == ProcStep(m, ub, st, f) IN RunProcess(m, ub, r.st, r.f)

(***************************************************************************)
(* The state at start-up: no module object and no candidate yet, the       *)
(* serial counter at its first value.                                      *)
(***************************************************************************)
NoCall ==
  [op |-> "none", v |-> "none", outcome |-> "ok", args |-> << >>,
   c |-> 0, w |-> [n |-> 1, d |-> 1], nsec |-> 0, ncands |-> 0, next |-> 0,
   repeat |-> FALSE, bins |-> << >>, ns |-> 0, was |-> "none"]

InitCommon ==
  /\ running = FALSE
  /\ nsteps = 0
  /\ frames = [w \in Workers |-> IdleFrame]
  /\ processed = {}
  /\ fault = "none"
  /\ last = NoCall

Init ==
  /\ InitCommon
  /\ variant = "none"
  /\ built = "none"
  /\ n_split = 0
  /\ Ebins = << >>
  /\ cands = << >>
  /\ nextSerialNumber = 0

Idle == \A w \in Workers : frames[w].pc = "idle"

\* what a configuration call records of itself
ConfCall(op, v, args, outcome) ==
  [NoCall EXCEPT !.op = op, !.v = v, !.args = args, !.outcome = outcome,
                 !.bins = Ebins, !.ns = n_split, !.was = built]

\* the module is configured before the run starts
MayConfigure == fault = "none" /\ ~running

\* a setter is called, if at all, on the module a constructor just returned
JustConstructed ==
  built = "ok" /\ last.op \in {"default", "ctor4", "ctor5", "ctorSI"}

UnchangedRun ==
  UNCHANGED <<running, nsteps, cands, nextSerialNumber, frames, processed>>

(***************************************************************************)
(* Constructors and setters.                                               *)
(***************************************************************************)
\* the constructor without arguments: setNsplit(0), no bins
ConstructDefault(v) ==
  /\ MayConfigure
  /\ built = "none"
  /\ last.op = "none"
  /\ variant' = v
  /\ built' = "ok"
  /\ n_split' = 0
  /\ Ebins' = << >>
  /\ last' = ConfCall("default", v, << >>, "ok")
  /\ UNCHANGED fault
  /\ UnchangedRun

\* what both bin constructors do: setNsplit(n_split); setEnergyBins(...).
\* A throw leaves no object behind.
ConstructWithBins(op, v, ns, Emin, Emax, nb, log, ub) ==
  LET r == SetEnergyBinsResult(v, Emin, Emax, nb, log, ub)
  IN  /\ MayConfigure
      /\ built = "none"
      /\ last.op = "none"
      /\ last' = ConfCall(op, v, <<ns, Emin, Emax, nb, log>>, r.outcome)
      /\ fault' = IF r.outcome = "segv" THEN "segv" ELSE fault
      /\ IF r.outcome = "ok"
           THEN /\ variant' = v
                /\ built' = "ok"
                /\ n_split' = ns
                /\ Ebins' = r.bins
           ELSE UNCHANGED <<variant, built, n_split, Ebins>>
      /\ UnchangedRun

\* (n_split, Emin, Emax, n_bins): linear bins
Construct4(v) ==
  \E ns \in 0 .. MaxSplit, Emin \in Energies, Emax \in Energies,
     nb \in 0 .. MaxBins :
    \E ub \in ReadOutcomes(InsideAfterBuild(v, Emin, Emax, nb)) :
      ConstructWithBins("ctor4", v, ns, Emin, Emax, nb, FALSE, ub)

\* (n_split, Emin, Emax, n_bins, log)
Construct5(v) ==
  \E ns \in 0 .. MaxSplit, Emin \in Energies, Emax \in Energies,
     nb \in 0 .. MaxBins, log \in BOOLEAN :
    \E ub \in ReadOutcomes(InsideAfterBuild(v, Emin, Emax, nb)) :
      ConstructWithBins("ctor5", v, ns, Emin, Emax, nb, log, ub)

\* (SpectralIndex, Emin, factor)
ConstructSpectral(v) ==
  \E idx \in -1 .. MaxIndex, Emin \in Energies, factor \in 0 .. MaxFactor :
    LET Emax == SpectralEmax(Emin, factor)
        nb == SpectralBins(factor)
        r == SetEnergyBinsResult(v, Emin, Emax, nb, TRUE, "value")
        outcome == IF RejectsIndex(v, idx) THEN "throw" ELSE r.outcome
    IN  /\ MayConfigure
        /\ built = "none"
        /\ last.op = "none"
        /\ last' = ConfCall("ctorSI", v, <<idx, Emin, factor>>, outcome)
        /\ fault' = IF outcome = "segv" THEN "segv" ELSE fault
        /\ IF outcome = "ok"
             THEN /\ variant' = v
                  /\ built' = "ok"
                  /\ n_split' = SpectralNsplit(idx)
                  /\ Ebins' = r.bins
             ELSE UNCHANGED <<variant, built, n_split, Ebins>>
        /\ UnchangedRun

\* setEnergyBins on a constructed module: Ebins.resize(0) comes first
SetEnergyBins ==
  \E Emin \in Energies, Emax \in Energies, nb \in 0 .. MaxBins,
     log \in BOOLEAN :
   \E ub \in ReadOutcomes(InsideAfterBuild(variant, Emin, Emax, nb)) :
    LET r == SetEnergyBinsResult(variant, Emin, Emax, nb, log, ub)
    IN  /\ MayConfigure
        /\ JustConstructed
        /\ last' = ConfCall("setEnergyBins", variant, <<Emin, Emax, nb, log>>,
                            r.outcome)
        /\ fault' = IF r.outcome = "segv" THEN "segv" ELSE fault
        /\ Ebins' = r.bins
        /\ UNCHANGED <<variant, built, n_split>>
        /\ UnchangedRun

SetNsplit ==
  \E n \in 0 .. MaxSplit :
    /\ MayConfigure
    /\ JustConstructed
    /\ last' = ConfCall("setNsplit", variant, <<n>>, "ok")
    /\ n_split' = n
    /\ UNCHANGED <<variant, built, Ebins, fault>>
    /\ UnchangedRun

(***************************************************************************)
(* The engine: between two calls of process() on a candidate it makes the  *)
(* current state the previous one and moves the candidate to a new energy. *)
(* It moves candidates while no call of process() is under way: a move of  *)
(* one candidate and the steps of a call on another commute.               *)
(***************************************************************************)
\* the primaries: the candidates the engine injected
Primaries(cs) == Cardinality({i \in 1 .. Len(cs) : cs[i].parent = 0})

\* the run holds at most MaxCand candidates for each primary it was given
Capacity(cs) == MaxCand * Primaries(cs)

InFlight(c) == \E w \in Workers : frames[w].pc # "idle" /\ frames[w].c = c

\* the engine injects the primary candidate, which takes the next serial
\* number, and the run starts
Inject ==
  \E E \in Energies :
    /\ fault = "none"
    /\ built = "ok"
    /\ cands = << >>
    /\ running' = TRUE
    /\ cands' = <<NewCandidate(E, nextSerialNumber)>>
    /\ nextSerialNumber' = nextSerialNumber + 1
    /\ last' = [NoCall EXCEPT !.op = "inject", !.c = 1]
    /\ UNCHANGED <<variant, built, n_split, Ebins, nsteps, frames, processed,
                   fault>>

EngineStep ==
  \E c \in 1 .. Len(cands), E \in Energies :
    /\ fault = "none"
    /\ built = "ok"
    /\ nsteps < MaxSteps * Primaries(cands)
    /\ Idle
    /\ running' = TRUE
    /\ nsteps' = nsteps + 1
    /\ cands' = [cands EXCEPT ![c].previous = cands[c].current, ![c].current = E]
    /\ processed' = processed \ {c}
    /\ last' = [NoCall EXCEPT !.op = "engine", !.c = c]
    /\ UNCHANGED <<variant, built, n_split, Ebins, nextSerialNumber,
                   frames, fault>>

(***************************************************************************)
(* process(c), one call at a time.                                         *)
(***************************************************************************)
ProcCall(c) ==
  [NoCall EXCEPT !.op = "process", !.v = variant, !.c = c,
                 !.w = cands[c].weight, !.nsec = Len(cands[c].secondaries),
                 !.ncands = Len(cands), !.next = nextSerialNumber,
                 !.repeat = (c \in processed), !.bins = Ebins, !.ns = n_split,
                 !.was = built]

Process ==
  \E c \in 1 .. Len(cands), ub \in ReadOutcomes(Len(Ebins) > 0) :
    LET st == RunProcess(Module, ub, World, StartFrame(c))
    IN  /\ fault = "none"
        /\ built = "ok"
        /\ Idle
        /\ Len(st.cands) <= Capacity(st.cands)
        /\ running' = TRUE
        /\ cands' = st.cands
        /\ nextSerialNumber' = st.next
        /\ fault' = st.fault
        /\ processed' = processed \cup {c}
        /\ last' = [ProcCall(c) EXCEPT
                      !.outcome = IF st.fault = "segv" THEN "segv" ELSE "ok"]
        /\ UNCHANGED <<variant, built, n_split, Ebins, nsteps, frames>>

Next ==
  \/ \E v \in Variants : ConstructDefault(v)
  \/ \E v \in Variants : Construct4(v)
  \/ \E v \in Variants : Construct5(v)
  \/ \E v \in Variants : ConstructSpectral(v)
  \/ SetEnergyBins
  \/ SetNsplit
  \/ Inject
  \/ EngineStep
  \/ Process

Spec == Init /\ [][Next]_vars

(***************************************************************************)
(* process(c) by several workers, each on a candidate of its own, their    *)
(* steps interleaved.  The run starts with a module some bin constructor   *)
(* returned and two candidates injected by the engine.                     *)
(***************************************************************************)
InitMT ==
  /\ InitCommon
  /\ \E v \in Variants, ns \in 0 .. MaxSplit, Emin \in Energies, Emax \in Energies,
        nb \in 0 .. MaxBins, log \in BOOLEAN :
       /\ SetEnergyBinsResult(v, Emin, Emax, nb, log, "garbage").outcome = "ok"
       /\ variant = v
       /\ built = "ok"
       /\ n_split = ns
       /\ Ebins = SetEnergyBinsResult(v, Emin, Emax, nb, log, "garbage").bins
  /\ cands = <<NewCandidate(0, 0), NewCandidate(0, 1)>>
  /\ nextSerialNumber = 2

\* the steps of one worker up to its next access to the serial counter: the
\* steps in between touch only the worker's own candidate
RECURSIVE RunLocal(_, _, _, _)
RunLocal(m, ub, st, f) ==
  LET r == ProcStep(m, ub, st, f)
  IN  IF r.f.pc \in {"weight", "check"} THEN RunLocal(m, ub, r.st, r.f) ELSE r

\* a worker enters process(c) and runs to its first getNextSerialNumber; the
\* engine hands out a candidate once per step, and a secondary only after the
\* call that spawned it returned
BeginProcess(w) ==
  \E c \in 1 .. Len(cands), ub \in ReadOutcomes(Len(Ebins) > 0) :
    LET r == RunLocal(Module, ub, World, StartFrame(c))
    IN  /\ fault = "none"
        /\ built = "ok"
        /\ frames[w].pc = "idle"
        /\ ~InFlight(c)
        /\ c \notin processed
        /\ cands[c].parent # 0 => ~InFlight(cands[c].parent)
        /\ running' = TRUE
        /\ cands' = r.st.cands
        /\ fault' = r.st.fault
        /\ frames' = [frames EXCEPT ![w] = IF r.f.pc = "done" THEN IdleFrame ELSE r.f]
        /\ processed' = processed \cup {c}
        /\ last' = [NoCall EXCEPT !.op = "worker"]
        /\ UNCHANGED <<variant, built, n_split, Ebins, nsteps,
                       nextSerialNumber>>

\* a worker at the clone (which reads the counter) or at setNextSerialNumber
WorkerStep(w) ==
  LET r == RunLocal(Module, "value", World, frames[w])
  IN  /\ fault = "none"
      /\ frames[w].pc \in {"clone", "setnext"}
      /\ frames[w].pc = "clone" => Len(cands) < Capacity(cands)
      /\ cands' = r.st.cands
      /\ nextSerialNumber' = r.st.next
      /\ frames' = [frames EXCEPT ![w] = IF r.f.pc = "done" THEN IdleFrame ELSE r.f]
      /\ last' = [NoCall EXCEPT !.op = "worker"]
      /\ UNCHANGED <<variant, built, n_split, Ebins, running, nsteps,
                     processed, fault>>

NextMT ==
  \/ EngineStep
  \/ \E w \in Workers : BeginProcess(w)
  \/ \E w \in Workers : WorkerStep(w)

SpecMT == InitMT /\ [][NextMT]_vars

(***************************************************************************)
(* What the claims speak of.                                               *)
(***************************************************************************)
\* a <= b on doubles
Leq(a, b) == ~IsNaN(a) /\ ~IsNaN(b) /\ ~Less(b, a)

\* the number of bin edges e with prevE < e <= currE
Crossed(bins, prevE, currE) ==
  Cardinality({i \in 1 .. Len(bins) :
                 Less(Num(prevE), bins[i]) /\ Leq(bins[i], Num(currE))})

\* the state is the one a call of process(last.c) returned into
AfterProcess == last.op = "process"
Subject == cands[last.c]
CrossedNow == Crossed(Ebins, Subject.previous, Subject.current)
Spawned == Len(cands) - last.ncands
Appended == Len(Subject.secondaries) - last.nsec
WeightKept == Subject.weight = last.w
NothingSpawned == Spawned = 0 /\ Appended = 0

\* the state is the one a bin constructor or setEnergyBins ended in
AfterBinCtor == last.op \in {"ctor4", "ctor5"}
AfterBuild == AfterBinCtor \/ last.op = "setEnergyBins"
ArgEmin == IF AfterBinCtor THEN last.args[2] ELSE last.args[1]
ArgEmax == IF AfterBinCtor THEN last.args[3] ELSE last.args[2]
ArgBins == IF AfterBinCtor THEN last.args[4] ELSE last.args[3]
ArgLog == IF AfterBinCtor THEN last.args[5] ELSE last.args[4]
StrictlyIncreasing(bins) ==
  \A i \in 1 .. Len(bins) - 1 : Less(bins[i], bins[i + 1])

\* the state is the one a spectral-index constructor ended in
AfterSpectral == last.op = "ctorSI"
ArgIndex == last.args[1]
ArgSEmin == last.args[2]
ArgFactor == last.args[3]

\* C1: after process() on a module with n_split >= 1 and a candidate with
\* currE >= Ebins[0], the weight is the weight before the call divided by
\* n_split^k, k the number of edges e with prevE < e <= currE.
C1_WeightLaw ==
  (/\ AfterProcess
   /\ n_split >= 1
   /\ Len(Ebins) >= 1
   /\ Leq(Ebins[1], Num(Subject.current)))
  => Subject.weight = [n |-> last.w.n, d |-> last.w.d * Pow(n_split, CrossedNow)]

\* C1 witness: a call that crossed two edges with n_split = 2
C1_Witness ==
  /\ AfterProcess
  /\ n_split = 2
  /\ Len(Ebins) >= 1
  /\ Leq(Ebins[1], Num(Subject.current))
  /\ CrossedNow = 2
  /\ Subject.weight.d = 4 * last.w.d

\* C2: a call of process() that crosses k edges appends k * (n_split - 1)
\* new candidates to the candidate's secondaries, and none when k = 0.
C2_CloneCount ==
  (/\ AfterProcess
   /\ n_split >= 1
   /\ Len(Ebins) >= 1
   /\ Leq(Ebins[1], Num(Subject.current)))
  => /\ Appended = CrossedNow * (n_split - 1)
     /\ Spawned = CrossedNow * (n_split - 1)
     /\ \A i \in 1 .. Appended :
          /\ Subject.secondaries[last.nsec + i] = last.ncands + i
          /\ cands[last.ncands + i].parent = last.c

\* C2 witness: two crossed edges with n_split = 2 gave two new secondaries
C2_Witness ==
  /\ AfterProcess
  /\ n_split = 2
  /\ Len(Ebins) >= 1
  /\ Leq(Ebins[1], Num(Subject.current))
  /\ CrossedNow = 2
  /\ Appended = 2

\* C3 (as stated): no two spawned candidates have the same serial number,
\* also when several workers run process() on different candidates.
C3_SerialsUnique ==
  \A a \in 1 .. Len(cands), b \in 1 .. Len(cands) :
    (a # b /\ cands[a].parent # 0 /\ cands[b].parent # 0)
      => cands[a].serial # cands[b].serial

\* C4 (as stated): a call of process() on a candidate that was processed
\* before and whose energies have not changed since splits nothing: the
\* weight stays and no candidate is appended.
C4_Idempotent ==
  (AfterProcess /\ last.repeat) => (WeightKept /\ NothingSpawned)

\* C5 (as stated): for Emin <= Emax and n_bins >= 2 the stored edges are
\* strictly increasing.
C5_StrictAsStated ==
  (AfterBuild /\ last.outcome = "ok" /\ ArgEmin <= ArgEmax /\ ArgBins >= 2)
    => StrictlyIncreasing(Ebins)

\* C5 (amended): for Emin < Emax and n_bins >= 2, and Emin > 0 when the
\* bins are log-spaced, the stored edges are strictly increasing; for
\* Emin = Emax no two edges are.
C5_StrictlyIncreasing ==
  (AfterBuild /\ last.outcome = "ok" /\ ArgBins >= 2)
    => /\ (ArgEmin < ArgEmax /\ (ArgLog => ArgEmin > 0))
            => StrictlyIncreasing(Ebins)
       /\ ArgEmin = ArgEmax
            => \A i \in 1 .. Len(Ebins) - 1 : ~Less(Ebins[i], Ebins[i + 1])

\* C5 witness: two log-spaced and two linear edges, built from Emin < Emax
C5_Witness ==
  /\ AfterBuild
  /\ last.outcome = "ok"
  /\ ArgEmin = 1
  /\ ArgEmax = 2
  /\ ArgBins = 2
  /\ Len(Ebins) = 2
  /\ Less(Ebins[1], Ebins[2])

\* the cases C6 names: currE below the first edge, n_split = 0, no edge e
\* with prevE < e <= currE, prevE at or above the top edge
SilentCase ==
  \/ Len(Ebins) >= 1 /\ Less(Num(Subject.current), Ebins[1])
  \/ n_split = 0
  \/ Len(Ebins) >= 1 /\ CrossedNow = 0
  \/ Len(Ebins) >= 1 /\ Leq(Ebins[Len(Ebins)], Num(Subject.previous))

\* C6 (as stated): in the silent cases process() changes neither the weight
\* nor the secondaries nor the serial counter, and raises no error.
C6_SilentNoOp ==
  (AfterProcess /\ SilentCase)
    => /\ WeightKept
       /\ NothingSpawned
       /\ nextSerialNumber = last.next
       /\ last.outcome = "ok"
       /\ fault = "none"

\* C7: a call of process() with currE <= prevE updates no weight and spawns
\* no candidate, whatever the bin table and n_split.
C7_NoSplitWhenDecreasing ==
  (AfterProcess /\ Subject.current <= Subject.previous)
    => (WeightKept /\ NothingSpawned /\ nextSerialNumber = last.next)

\* C7 witness: a call with currE <= prevE that passed the first guard
\* (n_split = 2, currE at or above the first edge) and had an edge above prevE
C7_Witness ==
  /\ AfterProcess
  /\ n_split = 2
  /\ Len(Ebins) >= 2
  /\ Subject.current <= Subject.previous
  /\ Leq(Ebins[1], Num(Subject.current))
  /\ FirstAbove(Ebins, Num(Subject.previous)) # 0

\* C8 (as stated): setEnergyBins and the bin constructors throw exactly when
\* Emin > Emax, and otherwise succeed and store n_bins edges.
C8_ThrowsIffBadRange ==
  AfterBuild
    => /\ (last.outcome = "throw") <=> (ArgEmin > ArgEmax)
       /\ ArgEmin <= ArgEmax => (last.outcome = "ok" /\ Len(Ebins) = ArgBins)

\* C9 (as stated): the spectral-index constructor of either class throws for
\* every SpectralIndex <= 0, and leaves no module behind.
C9_RejectsNonPositiveIndex ==
  (AfterSpectral /\ ArgIndex <= 0) => (last.outcome = "throw" /\ built = "none")

\* what C10 says of a module built from (SpectralIndex, Emin, factor)
SpectralAsClaimed ==
  /\ last.outcome = "ok"
  /\ Len(Ebins) = ArgFactor + 1
  /\ \A i \in 0 .. ArgFactor : Same(Ebins[i + 1], Num(ArgSEmin * Pow(10, i)))
  /\ n_split = Pow(10, ArgIndex - 1)

\* C10 (as stated): for SpectralIndex >= 1 and factor >= 1 the module has
\* the factor + 1 edges Emin * 10^i and n_split = 10^(SpectralIndex - 1).
C10_SpectralAsStated ==
  (AfterSpectral /\ ArgIndex >= 1 /\ ArgFactor >= 1) => SpectralAsClaimed

\* C10 (amended): the same for Emin > 0; for Emin = 0 every edge after the
\* first is NaN.
C10_SpectralConstruction ==
  (AfterSpectral /\ ArgIndex >= 1 /\ ArgFactor >= 1)
    => /\ ArgSEmin > 0 => SpectralAsClaimed
       /\ ArgSEmin = 0 => \A i \in 2 .. Len(Ebins) : IsNaN(Ebins[i])

\* C10 witness: SpectralIndex = 2, Emin = 1, factor = 1 gave [1, 10] and 10
C10_Witness ==
  /\ AfterSpectral
  /\ ArgIndex = 2
  /\ ArgSEmin = 1
  /\ ArgFactor = 1
  /\ built = "ok"
  /\ n_split = 10
  /\ Len(Ebins) = 2
  /\ Same(Ebins[2], Num(10))

\* C11 (as stated): the serial counter never decreases from one state to the
\* next, also with several workers inside process(), and once every call has
\* returned it has advanced by one for every candidate spawned (with the
\* primaries' serial numbers it equals the number of candidates).
C11_CounterMonotonic ==
  [][/\ nextSerialNumber' >= nextSerialNumber
     /\ Idle' => nextSerialNumber' = Len(cands')]_vars

\* the same invocation in other surroundings: a candidate with the energies
\* and the weight the processed one had, no secondaries, alone in the run,
\* the serial counter at 0, no earlier call
Alone ==
  [cands |-> <<[NewCandidate(Subject.current, 0) EXCEPT
                  !.previous = Subject.previous, !.weight = last.w]>>,
   next |-> 0, fault |-> "none"]
Reference(ub) == RunProcess(Module, ub, Alone, StartFrame(1))

\* C12: a call of process() gives the number of new candidates and the
\* final weight that a call with the same prevE, currE, Ebins, n_split and
\* weight gives on a candidate without secondaries, with another counter
\* value and no earlier call.
C12_Deterministic ==
  AfterProcess
    => \A ub \in ReadOutcomes(Len(Ebins) > 0) :
         /\ Spawned = Len(Reference(ub).cands) - 1
         /\ Subject.weight = Reference(ub).cands[1].weight

\* C12 witness: a splitting call on a candidate that was processed before,
\* has secondaries already, with the counter advanced
C12_Witness ==
  /\ AfterProcess
  /\ last.repeat
  /\ last.nsec >= 1
  /\ last.next >= 2
  /\ Spawned >= 1
  /\ Subject.weight # last.w

\* the candidates the last call of process() spawned
NewClones == last.ncands + 1 .. Len(cands)

\* process(i) called now would split nothing
NoOpNow(i) ==
  LET st == RunProcess(Module, "value", World, StartFrame(i))
  IN  st.cands = cands /\ st.next = nextSerialNumber /\ st.fault = "none"

\* C13 (as stated): in both classes every candidate process() spawned has
\* the originator's currE as its previous energy, and process() on it, its
\* state as spawned, spawns nothing and leaves its weight.
C13_ClonesNotResplit ==
  AfterProcess
    => \A i \in NewClones :
         /\ cands[i].previous = Subject.current
         /\ NoOpNow(i)

\* the candidate n parent links above i (0 once the links end)
RECURSIVE Up(_, _, _)
Up(cs, i, n) == IF n = 0 \/ i = 0 THEN i ELSE Up(cs, cs[i].parent, n - 1)

\* how often candidate i is listed among the secondaries of p
Listed(cs, p, i) ==
  Cardinality({k \in 1 .. Len(cs[p].secondaries) : cs[p].secondaries[k] = i})

\* C14: the parent links and secondary lists form a forest: a spawned
\* candidate is listed once by its parent and by no one else, a primary by
\* no one, every list is in spawn order, the candidates a call spawned have
\* the processed candidate as parent, and no candidate is its own ancestor.
C14_Forest ==
  /\ \A i \in 1 .. Len(cands), p \in 1 .. Len(cands) :
        Listed(cands, p, i) = IF cands[i].parent = p THEN 1 ELSE 0
  /\ \A i \in 1 .. Len(cands) : cands[i].parent \in 0 .. Len(cands)
  /\ \A p \in 1 .. Len(cands) :
        /\ \A k \in 1 .. Len(cands[p].secondaries) :
              cands[p].secondaries[k] \in 1 .. Len(cands)
        /\ \A k \in 1 .. Len(cands[p].secondaries) - 1 :
              cands[p].secondaries[k] < cands[p].secondaries[k + 1]
  /\ AfterProcess => \A i \in NewClones : cands[i].parent = last.c
  /\ \A i \in 1 .. Len(cands), n \in 1 .. Len(cands) : Up(cands, i, n) # i

\* C14 witness: process() was called on a spawned candidate and spawned
\* from it, so the tree is two levels deep
C14_Witness ==
  /\ AfterProcess
  /\ Len(cands) = 3
  /\ cands[2].parent = 1
  /\ cands[3].parent = 2
  /\ last.c = 2

\* sums of weights, as exact fractions
AddWeight(a, b) == [n |-> a.n * b.d + b.n * a.d, d |-> a.d * b.d]
SameWeight(a, b) == a.n * b.d = b.n * a.d
RECURSIVE SumWeights(_, _)
SumWeights(cs, S) ==
  IF S = {}
    THEN [n |-> 0, d |-> 1]
    ELSE LET i == CHOOSE k \in S : TRUE
         IN  AddWeight(cs[i].weight, SumWeights(cs, S \ {i}))

\* the crossed edge (1 for the first) at which the t-th candidate of a call
\* is spawned: n_split - 1 candidates per edge
EdgeOfClone(t) == ((t - 1) \div (n_split - 1)) + 1

\* C15: for n_split >= 1, after process(c) the weight of c and the weights
\* of the candidates that call spawned add up to the weight of c before the
\* call, and a candidate spawned at the m-th crossed edge has that weight
\* divided by n_split^m.
C15_WeightConserved ==
  (AfterProcess /\ n_split >= 1)
    => /\ SameWeight(SumWeights(cands, NewClones \cup {last.c}), last.w)
       /\ \A t \in 1 .. Spawned :
            cands[last.ncands + t].weight =
              [n |-> last.w.n, d |-> last.w.d * Pow(n_split, EdgeOfClone(t))]

\* C15 witness: two crossed edges with n_split = 2: the candidate keeps a
\* quarter, the two spawned ones carry a half and a quarter
C15_Witness ==
  /\ AfterProcess
  /\ n_split = 2
  /\ CrossedNow = 2
  /\ Spawned = 2
  /\ Subject.weight.d = 4 * last.w.d
  /\ cands[last.ncands + 1].weight.d = 2 * last.w.d
  /\ cands[last.ncands + 2].weight.d = 4 * last.w.d

\* C16 (as stated): every read of a bin edge is inside the table: process()
\* reads Ebins[0] first of all, so it runs on a table with an edge, the
\* reads that end ParticleSplittingModule::setEnergyBins find their edges,
\* and no call crashes.
C16_IndexSafe ==
  /\ AfterProcess => (Len(Ebins) > 0 /\ last.outcome = "ok")
  /\ AfterBuild => InsideAfterBuild(last.v, ArgEmin, ArgEmax, ArgBins)
  /\ fault = "none"

\* C17 (as stated): when setEnergyBins on a module that holds a bin table
\* throws for Emin > Emax, Ebins and n_split are what they were before the
\* call.
C17_UnchangedOnError ==
  (/\ last.op = "setEnergyBins"
   /\ last.outcome = "throw"
   /\ Len(last.bins) >= 1)
  => (Ebins = last.bins /\ n_split = last.ns)

\* the candidates and the counter as they were when the last call of
\* process() began: the call changed the weight and the secondaries of its
\* candidate and appended the candidates it spawned
Before ==
  [cands |-> [SubSeq(cands, 1, last.ncands) EXCEPT
                ![last.c].weight = last.w,
                ![last.c].secondaries = SubSeq(@, 1, last.nsec)],
   next |-> last.next, fault |-> "none"]

OtherVariant == IF variant = "Candidate" THEN "Particle" ELSE "Candidate"

\* the same call made by the other class from the same state
ByOther(ub) ==
  RunProcess([Module EXCEPT !.v = OtherVariant], ub, Before, StartFrame(last.c))

\* candidates without their previous energy
NoPrevious(cs) == [i \in 1 .. Len(cs) |-> [cs[i] EXCEPT !.previous = 0]]

\* the previous energy a class gives the candidates it spawns
SpawnedPrevious(v) ==
  IF v = "Candidate" THEN Subject.current ELSE Subject.previous

\* C18: process() of the other class, run from the state the last call
\* began in, ends with the same weights, parents, secondaries and serial
\* numbers of all candidates and the same serial counter; the spawned
\* candidates get currE as previous energy from CandidateSplitting and the
\* originator's previous energy from ParticleSplittingModule.
C18_VariantsAgree ==
  AfterProcess
    => \A ub \in ReadOutcomes(Len(Ebins) > 0) :
         /\ NoPrevious(ByOther(ub).cands) = NoPrevious(cands)
         /\ ByOther(ub).next = nextSerialNumber
         /\ \A i \in NewClones :
              /\ cands[i].previous = SpawnedPrevious(variant)
              /\ ByOther(ub).cands[i].previous = SpawnedPrevious(OtherVariant)

\* C18 witness: a call of ParticleSplittingModule::process that crossed two
\* edges and spawned two candidates, whose previous energy is not currE
C18_Witness ==
  /\ AfterProcess
  /\ variant = "Particle"
  /\ n_split = 2
  /\ CrossedNow = 2
  /\ Spawned = 2
  /\ cands[last.ncands + 1].previous # Subject.current
  /\ ByOther("value").cands[last.ncands + 1].previous = Subject.current

=============================================================================
